---- MODULE Spec2Model ----
(***************************************************************************)
(* shipyard-trees: the ChildOf relation (source of truth), the derived     *)
(* SiblingIndex / ParentIndex storages maintained by tree_indexing, and    *)
(* the ReorderCommands queue drained by tree_reordering.                   *)
(*                                                                         *)
(* Storages are sparse: a storage is a function whose DOMAIN is the set of *)
(* entities that own the component.  Option<T> is a sequence of length at  *)
(* most one (<<>> is None, <<x>> is Some(x)).  ChildOf(parent, ord) is the *)
(* tuple <<parent, ord>> and SiblingID is the tuple <<ord, id>>.           *)
(***************************************************************************)
EXTENDS Integers, Sequences, FiniteSets, TLC

\* ---- bounds of the model ------------------------------------------------
NumChildren == 3        \* entities that may own a ChildOf: 1..NumChildren
NumParents == 2         \* ids the user names as parents: 0..NumParents-1
KeyBits == 8            \* width of the unsigned Ordered key (u32 in the source)
MaxEdits == 4           \* user operations (relation edits and pushed commands)
MaxQueue == 2           \* commands waiting in ReorderCommands

\* entity 0 is a root: like `a` of the tests it never owns a ChildOf
Children == 1..NumChildren
Parents == 0..(NumParents - 1)
UserKeys == {10, 20}    \* Ordered values the user places children with

\* ---- node.rs ------------------------------------------------------------
MAX_ORDERED == (2 ^ KeyBits) - 1
MIN_ORDERED == 0

Between(min, max) == (min \div 2) + (max \div 2)

None == <<>>
Some(x) == <<x>>

\* derived Ord of the tuple (Ordered, ID): key first, then entity id
SiblingLess(s, t) == s[1] < t[1] \/ (s[1] = t[1] /\ s[2] < t[2])

\* inserted, modified and deleted are the update-pack tracking of the ChildOf
\* storage as tree_indexing reads it: the changes since the previous pass.  The
\* systems hold the storage through a shared View, so the reset of the tracking
\* after a pass is the caller's; it is modelled as the last step of the pass,
\* which makes every pass receive the literal diff.
VARIABLES
    childOf,    \* ChildOf storage: entity -> <<parent, ord>>
    inserted,   \* entities whose ChildOf is new since the previous pass
    modified,   \* entities whose ChildOf was written since the previous pass
    deleted,    \* entities whose ChildOf was deleted since the previous pass
    sib,        \* SiblingIndex storage
    par,        \* ParentIndex storage: entity -> sequence of SiblingID
    cmds,       \* ReorderCommands: sequence of <<target, a, b>>
    fatal,      \* a system panicked
    edits       \* number of user operations so far

vars == <<childOf, inserted, modified, deleted, sib, par, cmds, fatal, edits>>

\* ---- storage helpers ----------------------------------------------------
Put(f, k, v) == [x \in (DOMAIN f) \cup {k} |-> IF x = k THEN v ELSE f[x]]
Del(f, k) == [x \in (DOMAIN f) \ {k} |-> f[x]]
Empty == [x \in {} |-> 0]

\* all orders in which a store can yield the elements of S
Orders(S) == {s \in [1..Cardinality(S) -> S] : \A i, j \in DOMAIN s : i # j => s[i] # s[j]}

RECURSIVE AscendingFrom(_, _)
AscendingFrom(S, acc) ==
    IF S = {} THEN acc
    ELSE LET m == CHOOSE x \in S : \A y \in S : x <= y
         IN AscendingFrom(S \ {m}, Append(acc, m))
Ascending(S) == AscendingFrom(S, <<>>)

\* ---- indexing.rs --------------------------------------------------------
\* a faulty variant of binary_search: the search never reports a match
binary_search_miss(s, x, lo, hi) == [found |-> FALSE, idx |-> lo]

\* slice::binary_search over s[lo+1..hi] (0-based bounds lo, hi): found with the
\* 0-based index of the match, or not found with the 0-based insertion point
RECURSIVE binary_search(_, _, _, _)
binary_search(s, x, lo, hi) ==
    IF lo >= hi THEN [found |-> FALSE, idx |-> lo]
    ELSE LET mid == lo + ((hi - lo) \div 2)
         IN IF s[mid + 1] = x THEN [found |-> TRUE, idx |-> mid]
            ELSE IF SiblingLess(s[mid + 1], x) THEN binary_search(s, x, mid + 1, hi)
            ELSE binary_search(s, x, lo, mid)

\* children.sort(): insertion of each element into an ascending prefix
RECURSIVE SortInto(_, _)
SortInto(acc, rest) ==
    IF rest = <<>> THEN acc
    ELSE LET x == Head(rest)
             k == Cardinality({i \in DOMAIN acc : SiblingLess(acc[i], x)})
         IN SortInto(SubSeq(acc, 1, k) \o <<x>> \o SubSeq(acc, k + 1, Len(acc)), Tail(rest))
Sort(s) == SortInto(<<>>, s)

\* siblings.retain(|(_, id)| id != &child)
Retain(s, child) == SelectSeq(s, LAMBDA t : t[2] # child)

\* a faulty variant of CollectChildren: the scan forgets its filter on the parent
CollectUnfiltered(co, parent_id) ==
    LET ids == Ascending(DOMAIN co)
    IN [i \in DOMAIN ids |-> <<co[ids[i]][2], ids[i]>>]

\* the scan of v_child_of for the children of parent_id, collected as SiblingIDs
CollectChildren(co, parent_id) ==
    LET ids == Ascending({e \in DOMAIN co : co[e][1] = parent_id})
    IN [i \in DOMAIN ids |-> <<co[ids[i]][2], ids[i]>>]

\* the loop creating the SiblingIndex of every scanned child (add_component
\* overwrites a component the entity already owns)
RECURSIVE AddSiblingIndexes(_, _, _, _)
AddSiblingIndexes(sibs, children, parent_id, idx) ==
    IF idx > Len(children) THEN sibs
    ELSE AddSiblingIndexes(
            Put(sibs, children[idx][2],
                [parent_node |-> parent_id,
                 ordered_node |-> children[idx],
                 prev_sibling |-> IF idx > 1 THEN Some(children[idx - 1]) ELSE None,
                 next_sibling |-> IF idx < Len(children) THEN Some(children[idx + 1]) ELSE None]),
            children, parent_id, idx + 1)

\* the else branch of the parent_index lookup: build ParentIndex(parent_id) from
\* the current relations
CreateParentIndex(st, co, parent_id) ==
    LET children == Sort(CollectChildren(co, parent_id))
    IN [st EXCEPT !.sib = AddSiblingIndexes(st.sib, children, parent_id, 1),
                  !.par = Put(st.par, parent_id, children)]

Panic(st) == [st EXCEPT !.fatal = TRUE]

\* a faulty variant of InsertAt: the new SiblingID is pushed at the end
InsertAtEnd(siblings, insert_at, x) == Append(siblings, x)

\* siblings.insert(insert_at, to_insert), insert_at 0-based
InsertAt(siblings, insert_at, x) ==
    SubSeq(siblings, 1, insert_at) \o <<x>> \o SubSeq(siblings, insert_at + 1, Len(siblings))

\* the body of `if siblings.binary_search(&to_insert).is_err()`
SpliceChild(st, child_id, to_insert, parent_id) ==
    LET siblings == Retain(st.par[parent_id], child_id)
        r == binary_search(siblings, to_insert, 0, Len(siblings))
        insert_at == r.idx
        prev_node_opt == IF insert_at > 0 THEN Some(siblings[insert_at]) ELSE None
        next_node_opt == IF insert_at < Len(siblings) THEN Some(siblings[insert_at + 1]) ELSE None
        children == InsertAt(siblings, insert_at, to_insert)
        st1 == [st EXCEPT !.par = Put(st.par, parent_id, children)]
        prevOk == prev_node_opt = None \/ prev_node_opt[1][2] \in DOMAIN st1.sib
        st2 == IF prev_node_opt = None THEN st1
               ELSE [st1 EXCEPT !.sib[prev_node_opt[1][2]].next_sibling = Some(to_insert)]
        nextOk == next_node_opt = None \/ next_node_opt[1][2] \in DOMAIN st2.sib
        st3 == IF next_node_opt = None THEN st2
               ELSE [st2 EXCEPT !.sib[next_node_opt[1][2]].prev_sibling = Some(to_insert)]
    IN IF r.found THEN Panic([st EXCEPT !.par = Put(st.par, parent_id, siblings)])
       ELSE IF ~prevOk THEN Panic(st1)
       ELSE IF ~nextOk THEN Panic(st2)
       ELSE [st3 EXCEPT !.sib = Put(st3.sib, child_id,
                [parent_node |-> parent_id,
                 ordered_node |-> to_insert,
                 prev_sibling |-> prev_node_opt,
                 next_sibling |-> next_node_opt])]

insert_child_of(st, co, child_id, child_order, parent_id) ==
    IF st.fatal THEN st
    ELSE LET st1 == IF parent_id \in DOMAIN st.par THEN st
                    ELSE CreateParentIndex(st, co, parent_id)
             siblings == st1.par[parent_id]
             to_insert == <<child_order, child_id>>
         IN IF binary_search(siblings, to_insert, 0, Len(siblings)).found THEN st1
            ELSE SpliceChild(st1, child_id, to_insert, parent_id)

unlink_child(st, child) ==
    IF st.fatal THEN st
    ELSE IF child \notin DOMAIN st.sib THEN Panic(st)
    ELSE LET parent_id == st.sib[child].parent_node
             t_prev_sibling == st.sib[child].prev_sibling
             t_next_sibling == st.sib[child].next_sibling
         IN IF parent_id \notin DOMAIN st.par THEN Panic(st)
            ELSE LET st1 == [st EXCEPT !.par[parent_id] = Retain(@, child)]
                     prevOk == t_prev_sibling = None \/ t_prev_sibling[1][2] \in DOMAIN st1.sib
                     st2 == IF t_prev_sibling = None THEN st1
                            ELSE [st1 EXCEPT !.sib[t_prev_sibling[1][2]].next_sibling = t_next_sibling]
                     nextOk == t_next_sibling = None \/ t_next_sibling[1][2] \in DOMAIN st2.sib
                     st3 == IF t_next_sibling = None THEN st2
                            ELSE [st2 EXCEPT !.sib[t_next_sibling[1][2]].prev_sibling = t_prev_sibling]
                 IN IF ~prevOk THEN Panic(st1)
                    ELSE IF ~nextOk THEN Panic(st2)
                    ELSE [st3 EXCEPT !.sib = Del(st3.sib, child)]

RECURSIVE ForEachDeleted(_, _)
ForEachDeleted(st, ids) ==
    IF ids = <<>> THEN st
    ELSE ForEachDeleted(unlink_child(st, Head(ids)), Tail(ids))

RECURSIVE ForEachInserted(_, _, _)
ForEachInserted(st, co, ids) ==
    IF ids = <<>> THEN st
    ELSE LET id == Head(ids)
         IN ForEachInserted(insert_child_of(st, co, id, co[id][2], co[id][1]), co, Tail(ids))

RECURSIVE ForEachModified(_, _, _)
ForEachModified(st, co, ids) ==
    IF ids = <<>> THEN st
    ELSE LET id == Head(ids)
         IN ForEachModified(
                insert_child_of(unlink_child(st, id), co, id, co[id][2], co[id][1]),
                co, Tail(ids))

\* one pass over the diff; del, ins, mod are the three diff sets in the order the
\* store yields them
tree_indexing(st, co, del, ins, mod) ==
    ForEachModified(ForEachInserted(ForEachDeleted(st, del), co, ins), co, mod)


Init ==
    /\ childOf = Empty
    /\ inserted = {}
    /\ modified = {}
    /\ deleted = {}
    /\ sib = Empty
    /\ par = Empty
    /\ cmds = <<>>
    /\ fatal = FALSE
    /\ edits = 0

\* ---- reordering.rs ------------------------------------------------------
\* a faulty variant of FoldAfter: the filter forgets the parent test
RECURSIVE FoldAfterAnyParent(_, _, _, _, _)
FoldAfterAnyParent(co, a_of, a_ord, iter, after) ==
    IF iter = <<>> THEN after
    ELSE LET e_ord == co[Head(iter)][2]
         IN FoldAfterAnyParent(co, a_of, a_ord, Tail(iter),
                               IF a_ord < e_ord /\ e_ord < after THEN e_ord ELSE after)

\* a faulty variant of FoldAfter: the fold keeps the key it saw last instead of
\* the smaller one
RECURSIVE FoldAfterLast(_, _, _, _, _)
FoldAfterLast(co, a_of, a_ord, iter, after) ==
    IF iter = <<>> THEN after
    ELSE LET e_of == co[Head(iter)][1]
             e_ord == co[Head(iter)][2]
         IN FoldAfterLast(co, a_of, a_ord, Tail(iter),
                          IF e_of = a_of /\ a_ord < e_ord THEN e_ord ELSE after)

\* the filter + fold over child_of.iter(): the smallest key above a_ord among
\* the relations naming a_of, MAX_ORDERED when there is none; iter is the order
\* in which the store yields its entities
RECURSIVE FoldAfter(_, _, _, _, _)
FoldAfter(co, a_of, a_ord, iter, after) ==
    IF iter = <<>> THEN after
    ELSE LET e_of == co[Head(iter)][1]
             e_ord == co[Head(iter)][2]
         IN FoldAfter(co, a_of, a_ord, Tail(iter),
                      IF e_of = a_of /\ a_ord < e_ord /\ e_ord < after THEN e_ord ELSE after)

\* a faulty variant of target_before: A's siblings are scanned even when A and B
\* share their parent
target_before_scan(co, a, b, order) ==
    FoldAfter(co, co[a][1], co[a][2], order, MAX_ORDERED)

\* a faulty variant of target_before: the cross-parent case never scans and
\* takes the domain maximum
target_before_max(co, a, b, order) ==
    IF co[a][1] # co[b][1] THEN MAX_ORDERED ELSE co[b][2]

\* target_before: B's key, or when A and B have different parents the key found
\* by scanning A's siblings
target_before(co, a, b, order) ==
    IF co[a][1] # co[b][1]
    THEN FoldAfter(co, co[a][1], co[a][2], order, MAX_ORDERED)
    ELSE co[b][2]

\* a faulty variant of resolve_move: a command naming an entity without a
\* relation is dropped silently
resolve_move_skip(rs, cmd, order) ==
    IF rs.fatal \/ ~({cmd[1], cmd[2], cmd[3]} \subseteq DOMAIN rs.co) THEN rs
    ELSE [rs EXCEPT !.co[cmd[1]] = <<rs.co[cmd[2]][1],
                                     Between(rs.co[cmd[2]][2],
                                             target_before(rs.co, cmd[2], cmd[3], order))>>,
                    !.written = @ \cup {cmd[1]}]

\* a faulty variant of resolve_move: the resolved key is written to A's relation
\* as well as to the target's
resolve_move_both(rs, cmd, order) ==
    IF rs.fatal \/ ~({cmd[1], cmd[2], cmd[3]} \subseteq DOMAIN rs.co) THEN Panic(rs)
    ELSE LET key == Between(rs.co[cmd[2]][2], target_before(rs.co, cmd[2], cmd[3], order))
             a_of == rs.co[cmd[2]][1]
         IN [rs EXCEPT !.co = Put(Put(rs.co, cmd[2], <<a_of, key>>), cmd[1], <<a_of, key>>),
                       !.written = @ \cup {cmd[1], cmd[2]}]

\* one ReorderCmd::Move { entity: target, between: (a, b) }; rs carries the
\* ChildOf storage, the entities written through get-mut, and the panic flag
resolve_move(rs, cmd, order) ==
    LET target == cmd[1]
        a == cmd[2]
        b == cmd[3]
    IN IF rs.fatal THEN rs
       ELSE IF a \notin DOMAIN rs.co \/ b \notin DOMAIN rs.co THEN Panic(rs)
       ELSE IF target \notin DOMAIN rs.co THEN Panic(rs)
       ELSE [rs EXCEPT !.co[target] = <<rs.co[a][1],
                                        Between(rs.co[a][2], target_before(rs.co, a, b, order))>>,
                       !.written = @ \cup {target}]

\* a faulty variant of tree_reordering: the queue is emptied from its end (pop)
\* instead of its front
RECURSIVE tree_reordering_lifo(_, _, _)
tree_reordering_lifo(rs, queue, order) ==
    IF queue = <<>> THEN rs
    ELSE tree_reordering_lifo(resolve_move(rs, queue[Len(queue)], order),
                              SubSeq(queue, 1, Len(queue) - 1), order)

\* for cmd in commands.0.drain(..)
RECURSIVE tree_reordering(_, _, _)
tree_reordering(rs, queue, order) ==
    IF queue = <<>> THEN rs
    ELSE tree_reordering(resolve_move(rs, Head(queue), order), Tail(queue), order)

\* ---- the user's operations on the world (lib.rs tests) -------------------
AddChildOf(e, p, k) ==
    /\ ~fatal
    /\ e \notin DOMAIN childOf
    /\ p # e
    /\ childOf' = Put(childOf, e, <<p, k>>)
    /\ inserted' = inserted \cup {e}
    /\ edits' = edits + 1
    /\ UNCHANGED <<modified, deleted, sib, par, cmds, fatal>>

\* a write through get-mut: flagged modified unless the relation is still
\* flagged inserted
SetChildOf(e, p, k) ==
    /\ ~fatal
    /\ e \in DOMAIN childOf
    /\ p # e
    /\ childOf[e] # <<p, k>>
    /\ childOf' = Put(childOf, e, <<p, k>>)
    /\ modified' = IF e \in inserted THEN modified ELSE modified \cup {e}
    /\ edits' = edits + 1
    /\ UNCHANGED <<inserted, deleted, sib, par, cmds, fatal>>

\* a relation added and deleted again between two passes leaves no trace in the
\* diff; a relation deleted and added again appears as deleted and inserted
DeleteChildOf(e) ==
    /\ ~fatal
    /\ e \in DOMAIN childOf
    /\ childOf' = Del(childOf, e)
    /\ deleted' = IF e \in inserted /\ e \notin deleted THEN deleted ELSE deleted \cup {e}
    /\ inserted' = inserted \ {e}
    /\ modified' = modified \ {e}
    /\ edits' = edits + 1
    /\ UNCHANGED <<sib, par, cmds, fatal>>

PushMove(t, a, b) ==
    /\ ~fatal
    /\ Len(cmds) < MaxQueue
    /\ cmds' = Append(cmds, <<t, a, b>>)
    /\ edits' = edits + 1
    /\ UNCHANGED <<childOf, inserted, modified, deleted, sib, par, fatal>>

\* ---- the two systems, and the workload that runs one after the other -----
Drained(order) == tree_reordering([co |-> childOf, written |-> {}, fatal |-> FALSE], cmds, order)

Indexed(co, del, ins, mod) == tree_indexing([sib |-> sib, par |-> par, fatal |-> FALSE], co, del, ins, mod)

\* what a drain can leave, over the orders in which the store may yield its entities
DrainResults == {Drained(order) : order \in Orders(DOMAIN childOf)}

\* what a pass over the relations co and the diff (del, ins, mod) can leave, over
\* the orders in which the store may yield each diff set
PassResults(co, del, ins, mod) ==
    {Indexed(co, d, i, m) : d \in Orders(del), i \in Orders(ins), m \in Orders(mod)}

\* get-mut flags a relation as modified unless it is flagged inserted
Flagged(written) == modified \cup (written \ inserted)

TreeReordering ==
    /\ ~fatal
    /\ cmds # <<>>
    /\ \E rs \in DrainResults :
        /\ childOf' = rs.co
        /\ modified' = Flagged(rs.written)
        /\ fatal' = rs.fatal
    /\ cmds' = <<>>
    /\ UNCHANGED <<inserted, deleted, sib, par, edits>>

\* one pass, then the caller's reset of the tracking
TreeIndexing ==
    /\ ~fatal
    /\ \E st \in PassResults(childOf, deleted, inserted, modified) :
        /\ sib' = st.sib
        /\ par' = st.par
        /\ fatal' = st.fatal
    /\ inserted' = {}
    /\ modified' = {}
    /\ deleted' = {}
    /\ UNCHANGED <<childOf, cmds, edits>>

\* the workload of the tests: tree_reordering, then tree_indexing
RunDefault ==
    /\ ~fatal
    /\ cmds # <<>>
    /\ \E rs \in DrainResults :
        /\ childOf' = rs.co
        /\ IF rs.fatal
           THEN /\ fatal' = TRUE
                /\ modified' = Flagged(rs.written)
                /\ UNCHANGED <<inserted, deleted, sib, par>>
           ELSE /\ \E st \in PassResults(rs.co, deleted, inserted, Flagged(rs.written)) :
                    /\ sib' = st.sib
                    /\ par' = st.par
                    /\ fatal' = st.fatal
                /\ inserted' = {}
                /\ modified' = {}
                /\ deleted' = {}
    /\ cmds' = <<>>
    /\ UNCHANGED edits

\* the user's next operation: a relation edit with a key of `keys`, or a pushed
\* command naming entities of `ids`
Edit(keys) ==
    \/ \E e \in Children, p \in Parents, k \in keys : AddChildOf(e, p, k)
    \/ \E e \in Children, p \in Parents, k \in keys : SetChildOf(e, p, k)
    \/ \E e \in Children : DeleteChildOf(e)

Push(ids) == \E t, a, b \in ids : PushMove(t, a, b)

Next ==
    \/ edits < MaxEdits /\ Edit(UserKeys)
    \/ edits < MaxEdits /\ Push(Children)
    \/ TreeReordering
    \/ TreeIndexing
    \/ RunDefault

Spec == Init /\ [][Next]_vars

\* the relation edits and the indexing pass alone (no move commands)
NextIndexing ==
    \/ edits < MaxEdits /\ Edit(UserKeys)
    \/ TreeIndexing

SpecIndexing == Init /\ [][NextIndexing]_vars

\* one more user operation, one key, one command queued at a time: reaches the
\* moves made after several indexing passes
NextDeep ==
    \/ edits < MaxEdits + 1 /\ Edit({10})
    \/ edits < MaxEdits + 1 /\ cmds = <<>> /\ Push(Children)
    \/ TreeReordering
    \/ TreeIndexing
    \/ RunDefault

SpecDeep == Init /\ [][NextDeep]_vars

\* ---- moves over a populated, indexed world --------------------------------
\* one more entity and one more key than the user's edits above, so that A can
\* have two later siblings while B lives elsewhere
ScanChildren == 1..(NumChildren + 1)
ScanKeys == UserKeys \cup {30}

\* the world after the user added a batch of relations and ran the first
\* indexing pass, with one user operation left
InitScan ==
    \E f \in [ScanChildren -> {<<>>} \cup (Parents \X ScanKeys)] :
        LET placed == {c \in ScanChildren : f[c] # <<>>}
            co == [c \in placed |-> f[c]]
            st == tree_indexing([sib |-> Empty, par |-> Empty, fatal |-> FALSE],
                                co, <<>>, Ascending(placed), <<>>)
        IN /\ \A c \in placed : f[c][1] # c
           /\ childOf = co
           /\ sib = st.sib
           /\ par = st.par
           /\ fatal = st.fatal
           /\ inserted = {}
           /\ modified = {}
           /\ deleted = {}
           /\ cmds = <<>>
           /\ edits = MaxEdits - 1

NextScan ==
    \/ edits < MaxEdits /\ Push(ScanChildren)
    \/ TreeReordering
    \/ TreeIndexing
    \/ RunDefault

SpecScan == InitScan /\ [][NextScan]_vars

\* a pass has completed and nothing was written since
Settled == ~fatal /\ inserted = {} /\ modified = {} /\ deleted = {}

ChildrenOf(p) == {<<childOf[c][2], c>> : c \in {e \in DOMAIN childOf : childOf[e][1] = p}}
Entries(s) == {s[i] : i \in DOMAIN s}
StrictlyAscending(s) == \A i \in 1..(Len(s) - 1) : SiblingLess(s[i], s[i + 1])

\* C1: after a completed pass, every ParentIndex is strictly ascending and its
\* entries are exactly the SiblingIDs of the entities whose ChildOf names it
C1_ParentIndexExact ==
    Settled => \A p \in DOMAIN par :
        StrictlyAscending(par[p]) /\ Entries(par[p]) = ChildrenOf(p)

HasSibling(c) == c \in DOMAIN sib

\* C2: after a completed pass, along every ParentIndex the SiblingIndex records
\* are doubly linked: each element's next is its successor, each element's prev
\* is its predecessor, the first has no prev and the last has no next
C2_DoublyLinked ==
    Settled => \A p \in DOMAIN par :
        LET s == par[p]
        IN /\ \A i \in DOMAIN s : HasSibling(s[i][2])
           /\ \A i \in 1..(Len(s) - 1) :
                /\ sib[s[i][2]].next_sibling = Some(s[i + 1])
                /\ sib[s[i + 1][2]].prev_sibling = Some(s[i])
           /\ Len(s) > 0 => /\ sib[s[1][2]].prev_sibling = None
                            /\ sib[s[Len(s)][2]].next_sibling = None

\* C3: after a completed pass, an entity has a SiblingIndex iff it has a ChildOf
C3_SiblingIndexIffChildOf ==
    Settled => DOMAIN sib = DOMAIN childOf

\* ---- move commands -------------------------------------------------------
\* a step of tree_reordering (alone or inside the workload): the queue is drained
IsDrain == ~fatal /\ cmds # <<>> /\ cmds' = <<>>

\* a drain followed, in the same workload run, by a completed indexing pass
IsDrainThenPass == IsDrain /\ inserted' = {} /\ modified' = {} /\ deleted' = {} /\ ~fatal'

LastCmd == cmds[Len(cmds)]
T == LastCmd[1]
A == LastCmd[2]
B == LastCmd[3]

\* the relations the last command of the queue reads: those left by the commands
\* before it
BeforeLast ==
    {tree_reordering([co |-> childOf, written |-> {}, fatal |-> FALSE],
                     SubSeq(cmds, 1, Len(cmds) - 1), order) : order \in Orders(DOMAIN childOf)}

AllPresent(co) == {T, A, B} \subseteq DOMAIN co
Distinct == T # A /\ T # B /\ A # B

\* the smallest key strictly greater than a's among the entities whose ChildOf
\* names a's parent, the domain maximum when there is none
UpperBound(co, a) ==
    LET greater == {co[e][2] : e \in {x \in DOMAIN co : co[x][1] = co[a][1] /\ co[x][2] > co[a][2]}}
    IN IF greater = {} THEN MAX_ORDERED
       ELSE CHOOSE k \in greater : \A j \in greater : k <= j

\* C4: a Move whose references have different parents puts the target under A's
\* parent with the key between(A.key, U), U the smallest key above A's among the
\* children of A's parent (the domain maximum if none); B plays no part
C4_CrossParentMove ==
    [][IsDrain => \A pre \in BeforeLast :
               (~pre.fatal /\ AllPresent(pre.co) /\ pre.co[A][1] # pre.co[B][1])
                => childOf'[T] = <<pre.co[A][1],
                                   Between(pre.co[A][2], UpperBound(pre.co, A))>>]_vars

\* Scenario E has happened: a child carries the key between(10, MAX), which only
\* a cross-parent move with no sibling after A produces
C4_Witness ==
    \E t \in DOMAIN childOf :
        /\ childOf[t][2] = Between(10, MAX_ORDERED)
        /\ childOf[t][1] # t
        /\ t \in modified \cup inserted

\* C5: a Move whose references share the parent P puts the target under P with
\* the key between(A.key, B.key), whatever the target's relation was
C5_SameParentMove ==
    [][IsDrain => \A pre \in BeforeLast :
               (~pre.fatal /\ AllPresent(pre.co) /\ pre.co[A][1] = pre.co[B][1])
                => childOf'[T] = <<pre.co[A][1], Between(pre.co[A][2], pre.co[B][2])>>]_vars

\* Scenario D has happened: under one parent, keys 10 and 20 with the moved
\* child at 15 between them
C5_Witness ==
    \E t, a, b \in DOMAIN childOf :
        /\ t # a /\ t # b
        /\ childOf[a][2] = 10 /\ childOf[b][2] = 20 /\ childOf[t][2] = 15
        /\ childOf[a][1] = childOf[t][1] /\ childOf[b][1] = childOf[t][1]
        /\ t \in modified \cup inserted

\* the position of entity id in a children list, 0 when it has no entry
Position(s, id) ==
    IF \E i \in DOMAIN s : s[i][2] = id
    THEN CHOOSE i \in DOMAIN s : s[i][2] = id
    ELSE 0

\* A precedes B among the children of their common parent
SharedParentInOrder(co) ==
    /\ co[A][1] = co[B][1]
    /\ SiblingLess(<<co[A][2], A>>, <<co[B][2], B>>)

PlacedBetween(co) ==
    LET P == co[A][1]
    IN /\ childOf'[T][1] = P
       /\ P \in DOMAIN par'
       /\ Position(par'[P], T) > 0
       /\ Position(par'[P], A) > 0
       /\ Position(par'[P], A) < Position(par'[P], T)
       /\ Position(par'[P], T) < Position(par'[P], B)

\* C6 as claimed: after the drain and the pass, the target of a Move between two
\* other children A, B of one parent (A before B) sits after A and before B
C6_Claimed ==
    [][IsDrainThenPass => \A pre \in BeforeLast :
               (~pre.fatal /\ AllPresent(pre.co) /\ Distinct /\ SharedParentInOrder(pre.co))
                => PlacedBetween(pre.co)]_vars

ImmediatelyAfterA(co) ==
    LET P == co[A][1]
    IN /\ childOf'[T][1] = P
       /\ P \in DOMAIN par'
       /\ {A, T} \subseteq DOMAIN sib'
       /\ sib'[A].next_sibling = Some(<<childOf'[T][2], T>>)
       /\ sib'[T].prev_sibling = Some(<<co[A][2], A>>)
       /\ Position(par'[P], A) > 0
       /\ Position(par'[P], T) = Position(par'[P], A) + 1

C6_Witness ==
    /\ Settled /\ cmds = <<>>
    /\ \E t, a, b \in DOMAIN childOf : \E p \in DOMAIN par :
        /\ childOf[a] = <<p, 10>> /\ childOf[b] = <<p, 20>> /\ childOf[t] = <<p, 15>>
        /\ par[p] = <<<<10, a>>, <<15, t>>, <<20, b>>>>
        /\ {t, a, b} \subseteq DOMAIN sib
        /\ sib[t].prev_sibling = Some(<<10, a>>)
        /\ sib[t].next_sibling = Some(<<20, b>>)

\* the key between(A.key, B.key) falls strictly between the two keys
StrictlyBetween(co) ==
    /\ co[A][2] < Between(co[A][2], co[B][2])
    /\ Between(co[A][2], co[B][2]) < co[B][2]

\* C6 (amended): when moreover T is neither A nor B and between(A.key, B.key) is
\* strictly between the two keys, T sits after A and before B in ParentIndex(P)
C6_PlacedBetween ==
    [][IsDrainThenPass => \A pre \in BeforeLast :
               (~pre.fatal /\ AllPresent(pre.co) /\ Distinct
                    /\ pre.co[A][1] = pre.co[B][1] /\ StrictlyBetween(pre.co))
                => PlacedBetween(pre.co)]_vars

\* the cross-parent key is strictly between A's key and the upper bound, and no
\* other child of A's parent shares A's key with a larger id
NoCollision(co) ==
    LET k == Between(co[A][2], UpperBound(co, A))
    IN /\ co[A][2] < k
       /\ k < UpperBound(co, A)
       /\ \A e \in DOMAIN co \ {A, T} :
            ~(co[e][1] = co[A][1] /\ co[e][2] = co[A][2] /\ e > A)

\* T follows A in ParentIndex(P) and no entry between them belongs to an entity
\* whose current ChildOf is that entry
NextAmongChildren(co) ==
    LET P == co[A][1]
        s == par'[P]
    IN /\ childOf'[T][1] = P
       /\ P \in DOMAIN par'
       /\ Position(s, A) > 0
       /\ Position(s, A) < Position(s, T)
       /\ \A i \in (Position(s, A) + 1)..(Position(s, T) - 1) :
            ~(s[i][2] \in DOMAIN childOf' /\ childOf'[s[i][2]] = <<P, s[i][1]>>)

C9_OrderIndependent ==
    cmds # <<>> =>
        \A order \in Orders(DOMAIN childOf) :
            Drained(order) = Drained(Ascending(DOMAIN childOf))

\* a cross-parent move has been resolved where A (key 10) has two later siblings
\* with different keys (20 and 30), the target taking the key between(10, 20)
C9_Witness ==
    /\ cmds = <<>> /\ edits = MaxEdits /\ ~fatal
    /\ \E t, a, s1, s2 \in DOMAIN childOf :
        /\ Cardinality({t, a, s1, s2}) = 4
        /\ childOf[a] = <<0, 10>> /\ childOf[s1] = <<0, 20>> /\ childOf[s2] = <<0, 30>>
        /\ childOf[t] = <<0, 15>>
        /\ t \in modified

\* the commands applied one at a time, each by a drain of its own
RECURSIVE OneAtATime(_, _, _)
OneAtATime(rs, queue, order) ==
    IF queue = <<>> THEN rs
    ELSE OneAtATime(tree_reordering(rs, <<Head(queue)>>, order), Tail(queue), order)

\* C8: a run of tree_reordering leaves the queue empty and the relations that
\* applying the commands one at a time, in queue order, each reading what the
\* earlier ones wrote, leaves
C8_FifoDrain ==
    [][(~fatal /\ edits' = edits /\ (cmds' # cmds \/ childOf' # childOf))
        => /\ cmds' = <<>>
           /\ \E order \in Orders(DOMAIN childOf) :
                OneAtATime([co |-> childOf, written |-> {}, fatal |-> FALSE],
                           cmds, order).co = childOf']_vars

\* two commands have been drained, the second reading the key the first wrote:
\* 15 = between(10, 20), then 17 = between(15, 20)
C8_Witness ==
    /\ cmds = <<>> /\ ~fatal
    /\ \E x, y \in DOMAIN childOf :
        /\ childOf[x] = <<0, 15>> /\ childOf[y] = <<0, 17>>
        /\ DOMAIN childOf = {x, y}

\* C10: a Move naming a target or reference without a ChildOf aborts the drain:
\* the run ends fatal, with the relations as the earlier commands left them
C10_MissingRelationAborts ==
    [][IsDrain => \A pre \in BeforeLast :
               (~pre.fatal /\ ~AllPresent(pre.co))
                => /\ fatal'
                   /\ childOf' = pre.co
                   /\ modified' = Flagged(pre.written)]_vars

\* a drain has aborted before any index existed, two entities having relations
C10_Witness ==
    /\ fatal /\ cmds = <<>> /\ par = Empty /\ modified = {}
    /\ Cardinality(DOMAIN childOf) = 2

\* ---- retention of ParentIndex ----------------------------------------------
\* C11: no step removes a ParentIndex, and after a completed pass the
\* ParentIndex of a parent whose children were all deleted or moved away is
\* present with an empty children list
C11_ParentIndexKept ==
    [][/\ DOMAIN par \subseteq DOMAIN par'
       /\ Settled' => \A p \in DOMAIN par' : (ChildrenOf(p)' = {}) => par'[p] = <<>>]_vars

\* ---- deletion of a relation ------------------------------------------------
\* the pass receives a diff that consists of the deletion of Y's relation alone
DeletionOf(Y) ==
    /\ TreeIndexing
    /\ deleted = {Y} /\ inserted = {} /\ modified = {}

\* C12: the pass that receives the deletion of Y's ChildOf removes Y's
\* SiblingIndex and Y's entry from the ParentIndex of its former parent (the
\* parent_node of the record), and leaves ParentIndex(Y) and the SiblingIndex
\* records of Y's children as they were
C12_DeleteFrame ==
    [][\A Y \in Children : DeletionOf(Y) =>
            /\ ~fatal'
            /\ Y \notin DOMAIN sib'
            /\ Y \in DOMAIN sib =>
                    Position(par'[sib[Y].parent_node], Y) = 0
            /\ Y \in DOMAIN par => (Y \in DOMAIN par' /\ par'[Y] = par[Y])
            /\ \A c \in DOMAIN childOf :
                    (childOf[c][1] = Y /\ c \in DOMAIN sib)
                        => (c \in DOMAIN sib' /\ sib'[c] = sib[c])]_vars

\* ---- passes whose diffs hold insertions only --------------------------------
NextInsert ==
    \/ edits < MaxEdits /\ \E e \in Children, p \in Parents, k \in UserKeys : AddChildOf(e, p, k)
    \/ TreeIndexing

SpecInsert == Init /\ [][NextInsert]_vars

\* C13: with insertions only, after each pass every ParentIndex lists exactly
\* the children of its parent in ascending order (which fixes the list, whatever
\* the order and the batches of the insertions), every parent named by a relation
\* has its ParentIndex, an only child has no prev and no next sibling, and the
\* entities with a SiblingIndex are those with a ChildOf
C13_InsertOnly ==
    Settled =>
        /\ \A p \in DOMAIN par :
            /\ StrictlyAscending(par[p])
            /\ Entries(par[p]) = ChildrenOf(p)
            /\ Len(par[p]) = 1 =>
                    /\ par[p][1][2] \in DOMAIN sib
                    /\ sib[par[p][1][2]].prev_sibling = None
                    /\ sib[par[p][1][2]].next_sibling = None
        /\ \A c \in DOMAIN childOf : childOf[c][1] \in DOMAIN par
        /\ DOMAIN sib = DOMAIN childOf

\* two children of the root indexed in key order against their id order, and a
\* grandchild that is an only child
C13_Witness ==
    /\ Settled
    /\ childOf = (1 :> <<0, 20>>) @@ (2 :> <<1, 10>>) @@ (3 :> <<0, 10>>)
    /\ par = (0 :> <<<<10, 3>>, <<20, 1>>>>) @@ (1 :> <<<<10, 2>>>>)
    /\ sib[2].prev_sibling = None /\ sib[2].next_sibling = None
    /\ sib[3].next_sibling = Some(<<20, 1>>)

\* ---- node.rs: the key constructors, applied to the keys of placed children ---
\* Ordered::after and Ordered::before, with their constants HALF_MAX and HALF_MIN
HALF_MAX == MAX_ORDERED \div 2
HALF_MIN == MIN_ORDERED \div 2
After(a) == (a \div 2) + HALF_MAX
Before(a) == (a \div 2) + HALF_MIN

\* a write of key k to e's relation through get-mut
WriteKey(e, k) ==
    /\ ~fatal
    /\ childOf' = Put(childOf, e, <<childOf[e][1], k>>)
    /\ modified' = IF e \in inserted THEN modified ELSE modified \cup {e}
    /\ edits' = edits + 1
    /\ UNCHANGED <<inserted, deleted, sib, par, cmds, fatal>>

\* e's key .move_between(a's key, b's key)
move_between(e, a, b) == WriteKey(e, Between(childOf[a][2], childOf[b][2]))

\* e's key = Ordered::after(a's key), Ordered::before(a's key)
PlaceAfter(e, a) == WriteKey(e, After(childOf[a][2]))
PlaceBefore(e, a) == WriteKey(e, Before(childOf[a][2]))

KeyDomain == MIN_ORDERED..MAX_ORDERED

\* two children of the root, indexed, with any two keys of the domain, and one
\* user operation left
InitKeys ==
    \E k1, k2 \in KeyDomain :
        LET co == (1 :> <<0, k1>>) @@ (2 :> <<0, k2>>)
            st == tree_indexing([sib |-> Empty, par |-> Empty, fatal |-> FALSE],
                                co, <<>>, <<1, 2>>, <<>>)
        IN /\ childOf = co
           /\ sib = st.sib
           /\ par = st.par
           /\ fatal = st.fatal
           /\ inserted = {}
           /\ modified = {}
           /\ deleted = {}
           /\ cmds = <<>>
           /\ edits = MaxEdits - 1

NextKeys ==
    \/ edits < MaxEdits /\ \E e, a, b \in DOMAIN childOf : move_between(e, a, b)
    \/ edits < MaxEdits /\ \E e, a \in DOMAIN childOf : PlaceAfter(e, a)
    \/ edits < MaxEdits /\ \E e, a \in DOMAIN childOf : PlaceBefore(e, a)

SpecKeys == InitKeys /\ [][NextKeys]_vars

\* C14: for min <= max the key between(min, max) lies in [min, max], and in the
\* key domain
C14_BetweenWithinBounds ==
    [][\A e, a, b \in DOMAIN childOf :
            (move_between(e, a, b) /\ childOf[a][2] <= childOf[b][2])
                => /\ childOf[a][2] <= childOf'[e][2]
                   /\ childOf'[e][2] <= childOf[b][2]
                   /\ childOf'[e][2] \in KeyDomain]_vars

\* C15: between is the floor average of its two arguments, before(a) the floor
\* average of the domain minimum and a, after(a) the floor average of a and the
\* domain maximum
C15_FloorAverage ==
    [][\A e, a \in DOMAIN childOf :
            /\ \A b \in DOMAIN childOf :
                    move_between(e, a, b)
                        => childOf'[e][2] = (childOf[a][2] + childOf[b][2]) \div 2
            /\ PlaceBefore(e, a) => childOf'[e][2] = (MIN_ORDERED + childOf[a][2]) \div 2
            /\ PlaceAfter(e, a) => childOf'[e][2] = (childOf[a][2] + MAX_ORDERED) \div 2]_vars

\* ---- node.rs: Ordered::hinted, at its own width -------------------------------
\* hinted works on the full u32 whatever KeyBits is: EIGHTH_MAX is u32::MAX / 8
\* and a hint is a u8
EIGHTH_MAX == 536870911
HintMax == 255
Hints == 0..HintMax

\* x as a u32: 2^32 is 8 * (EIGHTH_MAX + 1); x exceeds u32::MAX iff x \div 8
\* exceeds EIGHTH_MAX, and is then reduced by 2^32 (a quarter at a time)
WrapU32(x) ==
    LET quarter == 2 * (EIGHTH_MAX + 1)
    IN IF x \div 8 <= EIGHTH_MAX THEN x
       ELSE (((x - quarter) - quarter) - quarter) - quarter

\* a faulty variant of Hinted: the cube and the product are taken on the u8
HintedNarrow(hint) == WrapU32((((hint ^ 3) % (HintMax + 1)) + ((hint * 4) % (HintMax + 1))) + EIGHTH_MAX)

Hinted(hint) == WrapU32(((hint ^ 3) + (hint * 4)) + EIGHTH_MAX)

\* a new entity with ChildOf::new(child_of, hint)
ChildOfNew(e, child_of, hint) == AddChildOf(e, child_of, Hinted(hint))

InitHinted ==
    /\ childOf = Empty
    /\ inserted = {}
    /\ modified = {}
    /\ deleted = {}
    /\ sib = Empty
    /\ par = Empty
    /\ cmds = <<>>
    /\ fatal = FALSE
    /\ edits = MaxEdits - 2

NextHinted ==
    edits < MaxEdits /\ \E e \in Children, hint \in Hints : ChildOfNew(e, 0, hint)

SpecHinted == InitHinted /\ [][NextHinted]_vars

\* hinted, tabulated over the hints
HintedOf == [hint \in Hints |-> Hinted(hint)]

\* the hints that give c's key
HintsOf(c) == {hint \in Hints : HintedOf[hint] = childOf[c][2]}

\* C16: of two children placed with hints h1 < h2 the first has the strictly
\* smaller key, and no hinted key has wrapped around the 32-bit domain: it is the
\* exact value h^3 + 4h + EIGHTH_MAX
C16_HintedMonotonic ==
    \A c1, c2 \in DOMAIN childOf :
        \A h1 \in HintsOf(c1) :
            /\ childOf[c1][2] = ((h1 ^ 3) + (h1 * 4)) + EIGHTH_MAX
            /\ \A h2 \in HintsOf(c2) : h1 < h2 => childOf[c1][2] < childOf[c2][2]

\* two children have been placed with the two largest hints, whose keys are the
\* closest to the end of the domain
C16_Witness ==
    \E c1, c2 \in DOMAIN childOf :
        /\ childOf[c1] = <<0, Hinted(HintMax - 1)>> /\ childOf[c2] = <<0, Hinted(HintMax)>>
        /\ childOf[c1][2] < childOf[c2][2]
        /\ {c1, c2} \subseteq inserted

\* ---- the idempotence guard of insert_child_of ------------------------------
\* the indices as insert_child_of receives them
Indices == [sib |-> sib, par |-> par, fatal |-> FALSE]

\* C17: whenever a ParentIndex already holds the exact SiblingID (key, child),
\* insert_child_of for that child, key and parent changes neither the children
\* list of any ParentIndex nor any SiblingIndex
C17_InsertIdempotent ==
    ~fatal => \A p \in DOMAIN par : \A s \in Entries(par[p]) :
                  insert_child_of(Indices, childOf, s[2], s[1], p) = Indices

\* two children were inserted under one parent in a single pass (the second
\* insert of that pass found its SiblingID already listed), and the insert of
\* the later sibling is run again
C17_Witness ==
    /\ Settled
    /\ childOf = (1 :> <<0, 10>>) @@ (2 :> <<0, 20>>)
    /\ par = (0 :> <<<<10, 1>>, <<20, 2>>>>)
    /\ sib[2].prev_sibling = Some(<<10, 1>>)
    /\ insert_child_of(Indices, childOf, 2, 20, 0) = Indices

\* ---- what a drain writes ---------------------------------------------------
\* the targets of the queued commands
Targets == {cmds[i][1] : i \in DOMAIN cmds}

\* C18: resolving a Move writes the target's ChildOf only: no relation is added
\* or removed, the last command of a drain leaves every relation but T's as the
\* commands before it left them, the drain as a whole changes and flags the
\* relations of targets only, and tree_reordering leaves every SiblingIndex and
\* ParentIndex as it was
C18_MoveFrame ==
    [][/\ IsDrain =>
            /\ DOMAIN childOf' = DOMAIN childOf
            /\ \A e \in DOMAIN childOf \ Targets : childOf'[e] = childOf[e]
            /\ \A pre \in BeforeLast :
                   ~pre.fatal => \A e \in DOMAIN pre.co \ {T} : childOf'[e] = pre.co[e]
       /\ TreeReordering =>
            /\ sib' = sib
            /\ par' = par
            /\ modified' \subseteq modified \cup Targets
            /\ inserted' = inserted
            /\ deleted' = deleted]_vars

\* a drain alone has moved child 3 between its siblings 1 and 2: its relation
\* carries the key 15, the relations of 1 and 2 are as the user wrote them, and
\* the indices still show child 3 where the last pass put it
C18_Witness ==
    /\ ~fatal
    /\ cmds = <<>>
    /\ childOf = (1 :> <<0, 10>>) @@ (2 :> <<0, 20>>) @@ (3 :> <<0, 15>>)
    /\ modified = {3}
    /\ inserted = {}
    /\ 3 \in DOMAIN sib
    /\ sib[3].ordered_node # <<15, 3>>
    /\ Position(par[0], 1) > 0 /\ Position(par[0], 2) > 0
    /\ <<15, 3>> \notin Entries(par[0])

\* ---- lookups of the indexing pass -----------------------------------------
\* relation edits with one key and indexing passes, with one more user operation
\* than MaxEdits: reaches the pass that follows three earlier passes
NextPasses ==
    \/ edits < MaxEdits + 1 /\ Edit({10})
    \/ TreeIndexing

SpecPasses == Init /\ [][NextPasses]_vars

\* C19: no tree_indexing pass fails a lookup: every SiblingIndex and ParentIndex
\* that unlink_child and insert_child_of read exists when it is read
C19_NoFatalLookup ==
    [][TreeIndexing => ~fatal']_vars

\* ---- the shape of the parent relation ---------------------------------------
\* the entities met by following ChildOf upwards from e, at most n steps
RECURSIVE AncestorsFrom(_, _, _)
AncestorsFrom(co, e, n) ==
    IF n = 0 \/ e \notin DOMAIN co THEN {}
    ELSE {co[e][1]} \cup AncestorsFrom(co, co[e][1], n - 1)

Ancestors(co, e) == AncestorsFrom(co, e, Cardinality(DOMAIN co))

\* no entity is its own ancestor
Acyclic(co) == \A e \in DOMAIN co : e \notin Ancestors(co, e)

\* C20: a drain of tree_reordering that starts from an acyclic parent relation
\* leaves an acyclic parent relation, whatever entities the commands name
C20_DrainKeepsAcyclic ==
    [][(IsDrain /\ Acyclic(childOf)) => Acyclic(childOf')]_vars

====
